---- MODULE Spec2Model ----
(***************************************************************************)
(* Model of ivy_tests/test_ivy/helpers/hypothesis_helpers/number_helpers.py *)
(* : the three composite generators floats, ints and number.               *)
(*                                                                         *)
(* Numbers.  A Python float is modelled as an integer: the unit is the     *)
(* spacing of float64, a narrower width has a coarser grid (WidthInfo).    *)
(* The numeric limits of the dtypes are scaled down so that every window   *)
(* can be enumerated; their order (float16 < bfloat16 < float32 < float64, *)
(* int8 < int16, uint8 unsigned) is the real one.  None is the empty set   *)
(* and a stated value v is {v}.                                            *)
(*                                                                         *)
(* gh.apply_safety_factor and dtype_helpers.get_dtypes are imported from   *)
(* sibling modules (line 5) whose code is not part of the sources at hand: *)
(* they are modelled from sections 4.1 and 6 of the specification.         *)
(* st.floats, st.integers, st.one_of and float_of belong to the host       *)
(* framework (lines 1-2) and are modelled by their documented behaviour.   *)
(***************************************************************************)
EXTENDS Integers, FiniteSets, Sequences, TLC

VARIABLES
    pc,          \* "idle" | "choose" | "draw" | "done"
    outer,       \* the generator the caller invoked: "none" | "floats" | "ints" | "number"
    nreq,        \* the arguments of number, when outer = "number"
    gen,         \* the composite whose body runs: "none" | "floats" | "ints"
    req,         \* the arguments of that composite
    dtype,       \* the dtype drawn on line 83 / 173
    scaled,      \* what gh.apply_safety_factor returned (applied = FALSE: not called)
    strategy,    \* the strategy handed to draw: <<s>> or <<s1, s2>> for one_of(s1, s2)
    pick,        \* the alternative of one_of that was drawn (0: no one_of)
    draws,       \* draws from the host drawing context in this invocation
    ret,         \* {} or {v}: the returned value
    err,         \* "none" | "RangeError" | "InvalidArgument"
    floats_info, \* the module-level table of lines 8-13
    prev         \* the last completed invocation (recorded by ReturnLogged only)

vars == <<pc, outer, nreq, gen, req, dtype, scaled, strategy, pick, draws, ret, err,
          floats_info, prev>>

-----------------------------------------------------------------------------
(* Bounds of the model *)

\* safety factors range over 1..MaxFactor
MaxFactor == 2

\* st.integers with an unstated bound draws from -HostIntMax..HostIntMax
HostIntMax == 36

-----------------------------------------------------------------------------
(* Values *)

None == {}

Some(x) == {x}

Val(o) == CHOOSE x \in o : TRUE

AbsVal(x) == IF x < 0 THEN -x ELSE x

Sign(x) == IF x < 0 THEN -1 ELSE 1

\* Python int(a / b) for b > 0: the quotient rounded toward zero
TruncDiv(a, b) == IF a >= 0 THEN a \div b ELSE -((-a) \div b)

\* the integer nearest to a / b for b > 0, ties to the even one (IEEE rounding)
RoundHalfEven(a, b) ==
    LET q == a \div b
        r == a - q * b
    IN  IF 2 * r < b THEN q
        ELSE IF 2 * r > b THEN q + 1
        ELSE IF q % 2 = 0 THEN q ELSE q + 1

RECURSIVE Pow(_, _)
Pow(b, e) == IF e = 0 THEN 1 ELSE b * Pow(b, e - 1)

\* x ^ (1 / k) for x >= 0, rounded toward zero
Root(x, k) == CHOOSE y \in 0..x : Pow(y, k) <= x /\ x < Pow(y + 1, k)

Clamp(x, lo, hi) == IF x < lo THEN lo ELSE IF x > hi THEN hi ELSE x

-----------------------------------------------------------------------------
(* The module-level table, lines 8-13 *)

FloatsInfoTable ==
    [float16  |-> [cast_type |-> "float16", width |-> 16],
     bfloat16 |-> [cast_type |-> "float32", width |-> 32],
     float32  |-> [cast_type |-> "float32", width |-> 32],
     float64  |-> [cast_type |-> "float64", width |-> 64]]

-----------------------------------------------------------------------------
(* The domain resolver (dtype_helpers.get_dtypes, section 6) *)

FloatDtypes == {"float16", "bfloat16", "float32", "float64"}

IntDtypes == {"int8", "uint8", "int16"}

\* NumericDomain of section 3, limits scaled down
DomainInfo ==
    [float16  |-> [kind |-> "float", min |-> -16, max |-> 16, smallest_normal |-> 8],
     bfloat16 |-> [kind |-> "float", min |-> -20, max |-> 20, smallest_normal |-> 4],
     float32  |-> [kind |-> "float", min |-> -24, max |-> 24, smallest_normal |-> 4],
     float64  |-> [kind |-> "float", min |-> -28, max |-> 28, smallest_normal |-> 2],
     int8     |-> [kind |-> "int", min |-> -8, max |-> 7, smallest_normal |-> 0],
     uint8    |-> [kind |-> "int", min |-> 0, max |-> 15, smallest_normal |-> 0],
     int16    |-> [kind |-> "int", min |-> -32, max |-> 31, smallest_normal |-> 0]]

-----------------------------------------------------------------------------
(* SafetyFactorScaler (gh.apply_safety_factor, section 4.1) *)

\* large-factor adjustment of one edge: linear divides the value, log divides
\* the exponent (the magnitude becomes its factor-th root)
ScaleLarge(x, factor, scale) ==
    IF scale = "linear" THEN TruncDiv(x, factor)
    ELSE Sign(x) * Root(AbsVal(x), factor)

\* small-factor adjustment of the excluded band: linear multiplies, log
\* divides the exponent
ScaleSmall(a, factor, scale) ==
    IF scale = "linear" THEN a * factor ELSE Root(a, factor)

\* Both adjustments are strictly increasing over the reals, so the exact
\* scaled bounds are inverted exactly when the unscaled ones are.
ApplySafetyFactor(dt, min_value, max_value, abs_smallest_val, small, large, scale) ==
    LET d  == DomainInfo[dt]
        mn == IF min_value = None THEN d.min ELSE Val(min_value)
        mx == IF max_value = None THEN d.max ELSE Val(max_value)
        ab == IF abs_smallest_val = None THEN d.smallest_normal
              ELSE Val(abs_smallest_val)
    IN  [applied |-> TRUE,
         err |-> mn > mx,
         min |-> Clamp(ScaleLarge(mn, large, scale), d.min, d.max),
         max |-> Clamp(ScaleLarge(mx, large, scale), d.min, d.max),
         abs |-> IF d.kind = "float" THEN ScaleSmall(ab, small, scale) ELSE 0]

NotScaled == [applied |-> FALSE, err |-> FALSE, min |-> 0, max |-> 0, abs |-> 0]

-----------------------------------------------------------------------------
(* The host framework's primitives *)

\* per width: the spacing of the grid and the smallest normal magnitude
WidthInfo ==
    (16 :> [step |-> 4, smallest_normal |-> 8]) @@
    (32 :> [step |-> 2, smallest_normal |-> 4]) @@
    (64 :> [step |-> 1, smallest_normal |-> 2])

\* hypothesis.internal.floats.float_of: x rounded to the nearest float of the width
float_of(x, width) ==
    RoundHalfEven(x, WidthInfo[width].step) * WidthInfo[width].step

\* the bounds st.floats draws between once exclude_min / exclude_max are applied
FloatsLo(s) ==
    IF s.exclude_min THEN Val(s.min) + WidthInfo[s.width].step ELSE Val(s.min)

FloatsHi(s) ==
    IF s.exclude_max THEN Val(s.max) - WidthInfo[s.width].step ELSE Val(s.max)

\* the floats st.floats(...) can produce
FloatsValues(s) ==
    {v \in FloatsLo(s)..FloatsHi(s) :
        /\ v % WidthInfo[s.width].step = 0
        /\ \/ s.allow_subnormal
           \/ v = 0
           \/ AbsVal(v) >= WidthInfo[s.width].smallest_normal}

\* st.floats(...) validates: NaN needs no bound, infinity an open side,
\* allow_subnormal a window that reaches below the smallest normal, and the
\* window must hold a value
FloatsValid(s) ==
    /\ ~s.allow_nan
    /\ ~s.allow_infinity
    /\ s.allow_subnormal =>
          /\ FloatsLo(s) < WidthInfo[s.width].smallest_normal
          /\ FloatsHi(s) > -WidthInfo[s.width].smallest_normal
    /\ FloatsValues(s) # {}

\* the integers st.integers(min_value, max_value) can produce
IntegersValues(s) ==
    (IF s.min = None THEN -HostIntMax ELSE Val(s.min)) ..
    (IF s.max = None THEN HostIntMax ELSE Val(s.max))

\* st.integers(...) validates: min_value <= max_value when both are stated
IntegersValid(s) ==
    s.min = None \/ s.max = None \/ Val(s.min) <= Val(s.max)

-----------------------------------------------------------------------------
(* floats, lines 16-131 *)

\* a slip: allow_subnormal hard-coded instead of passed through
MutStFloatsSubnormal(lo, hi, r, width) ==
    [kind |-> "floats",
     min |-> Some(lo),
     max |-> Some(hi),
     allow_nan |-> r.allow_nan,
     allow_subnormal |-> TRUE,
     allow_infinity |-> r.allow_inf,
     width |-> width,
     exclude_min |-> r.exclude_min,
     exclude_max |-> r.exclude_max]

\* one st.floats(...) call of lines 97-106, 109-118 and 119-128
StFloats(lo, hi, r, width) ==
    [kind |-> "floats",
     min |-> Some(lo),
     max |-> Some(hi),
     allow_nan |-> r.allow_nan,
     allow_subnormal |-> r.allow_subnormal,
     allow_infinity |-> r.allow_inf,
     width |-> width,
     exclude_min |-> r.exclude_min,
     exclude_max |-> r.exclude_max]

\* line 96: the smallest possible value is determined by one of the arguments
SingleWindow(s) == s.min > -s.abs \/ s.max < s.abs

\* a slip: the window is never split
MutFloatStrategyNoSplit(r, s, width) ==
    << StFloats(float_of(s.min, width), float_of(s.max, width), r, width) >>

\* lines 96-129
FloatStrategy(r, s, width) ==
    IF SingleWindow(s)
    THEN << StFloats(float_of(s.min, width), float_of(s.max, width), r, width) >>
    ELSE << StFloats(float_of(s.min, width), float_of(-s.abs, width), r, width),
            StFloats(float_of(s.abs, width), float_of(s.max, width), r, width) >>

\* lines 83-129: draw the dtype, scale the bounds, build the strategy
FloatsCompute(r, d0) ==
    \E dt \in FloatDtypes :
        LET s == ApplySafetyFactor(dt, r.min_value, r.max_value, r.abs_smallest_val,
                                   r.small_abs_safety_factor,
                                   r.large_abs_safety_factor, r.safety_factor_scale)
        IN  /\ gen' = "floats"
            /\ req' = r
            /\ dtype' = dt
            /\ draws' = d0 + 1
            /\ scaled' = s
            /\ pick' = 0
            /\ ret' = {}
            /\ IF s.err
               THEN /\ pc' = "done"
                    /\ err' = "RangeError"
                    /\ strategy' = << >>
               ELSE /\ pc' = "draw"
                    /\ err' = "none"
                    /\ strategy' = FloatStrategy(r, s, floats_info[dt].width)

\* a slip: the entry of the drawn dtype is widened in place and left so
MutFloatsBodyCaching(r, d0) ==
    /\ FloatsCompute(r, d0)
    /\ floats_info' = [floats_info EXCEPT ![dtype'].width = 64]

\* the body of floats never writes the module-level table
FloatsBody(r, d0) == FloatsCompute(r, d0) /\ floats_info' = floats_info

floats(r) ==
    /\ pc = "idle"
    /\ outer' = "floats"
    /\ FloatsBody(r, 0)
    /\ UNCHANGED <<nreq, prev>>

\* line 130: draw(float_strategy); one_of validates every alternative, draws
\* which one to use and then draws from it
FloatsDraw ==
    /\ pc = "draw"
    /\ gen = "floats"
    /\ pc' = "done"
    /\ IF \E i \in 1..Len(strategy) : ~FloatsValid(strategy[i])
       THEN /\ err' = "InvalidArgument"
            /\ UNCHANGED <<pick, draws, ret>>
       ELSE \E i \in 1..Len(strategy) :
            \E v \in FloatsValues(strategy[i]) :
                /\ pick' = IF Len(strategy) = 2 THEN i ELSE 0
                /\ draws' = draws + Len(strategy)
                /\ ret' = {v}
                /\ err' = "none"
    /\ UNCHANGED <<outer, nreq, gen, req, dtype, scaled, strategy, floats_info, prev>>

-----------------------------------------------------------------------------
(* ints, lines 134-184 *)

\* a slip: the rule for unbounded requests is missing
MutIntsScaleModeKept(r) == r.safety_factor_scale

\* lines 174-175
IntsScaleMode(r) ==
    IF r.min_value = None /\ r.max_value = None THEN "linear"
    ELSE r.safety_factor_scale

\* a slip: only the linear mode scales
MutIntsScalesLinearOnly(mode) == mode = "linear"

\* line 176
IntsScales(mode) == mode # "None"

\* lines 177-183
IntsApply(dt, r, mode) ==
    ApplySafetyFactor(dt, r.min_value, r.max_value, None, 1, r.safety_factor, mode)

\* a slip: inverted bounds are put in order before the draw
MutStIntegersSorted(lo, hi) ==
    LET swap == lo # None /\ hi # None /\ Val(lo) > Val(hi)
    IN  [kind |-> "integers",
         min |-> IF swap THEN hi ELSE lo,
         max |-> IF swap THEN lo ELSE hi,
         allow_nan |-> FALSE, allow_subnormal |-> FALSE, allow_infinity |-> FALSE,
         width |-> 0, exclude_min |-> FALSE, exclude_max |-> FALSE]

\* st.integers(min_value, max_value) of line 184
StIntegers(lo, hi) ==
    [kind |-> "integers", min |-> lo, max |-> hi,
     allow_nan |-> FALSE, allow_subnormal |-> FALSE, allow_infinity |-> FALSE,
     width |-> 0, exclude_min |-> FALSE, exclude_max |-> FALSE]

\* lines 173-184, up to the construction of the strategy
IntsBody(r, d0) ==
    \E dt \in IntDtypes :
        LET mode == IntsScaleMode(r)
            s == IF IntsScales(mode) THEN IntsApply(dt, r, mode) ELSE NotScaled
        IN  /\ gen' = "ints"
            /\ req' = r
            /\ dtype' = dt
            /\ draws' = d0 + 1
            /\ scaled' = s
            /\ pick' = 0
            /\ ret' = {}
            /\ floats_info' = floats_info
            /\ IF s.err
               THEN /\ pc' = "done"
                    /\ err' = "RangeError"
                    /\ strategy' = << >>
               ELSE /\ pc' = "draw"
                    /\ err' = "none"
                    /\ strategy' = IF s.applied
                                   THEN << StIntegers(Some(s.min), Some(s.max)) >>
                                   ELSE << StIntegers(r.min_value, r.max_value) >>

ints(r) ==
    /\ pc = "idle"
    /\ outer' = "ints"
    /\ IntsBody(r, 0)
    /\ UNCHANGED <<nreq, prev>>

\* line 184: draw(st.integers(min_value, max_value))
IntsDraw ==
    /\ pc = "draw"
    /\ gen = "ints"
    /\ pc' = "done"
    /\ IF ~IntegersValid(strategy[1])
       THEN /\ err' = "InvalidArgument"
            /\ UNCHANGED <<draws, ret>>
       ELSE \E v \in IntegersValues(strategy[1]) :
                /\ draws' = draws + 1
                /\ ret' = {v}
                /\ err' = "none"
    /\ UNCHANGED <<outer, nreq, gen, req, dtype, scaled, strategy, pick, floats_info,
                   prev>>

-----------------------------------------------------------------------------
(* number, lines 187-252 *)

\* a slip: the small factor is handed to ints as its safety factor
MutNumberIntsArgsSmall(n) ==
    [min_value |-> n.min_value,
     max_value |-> n.max_value,
     safety_factor |-> n.small_abs_safety_factor,
     safety_factor_scale |-> n.safety_factor_scale]

\* lines 239-244: the arguments of the ints alternative
NumberIntsArgs(n) ==
    [min_value |-> n.min_value,
     max_value |-> n.max_value,
     safety_factor |-> n.large_abs_safety_factor,
     safety_factor_scale |-> n.safety_factor_scale]

\* lines 245-251: the arguments of the floats alternative; the others keep
\* the defaults of lines 22-27
NumberFloatsArgs(n) ==
    [min_value |-> n.min_value,
     max_value |-> n.max_value,
     abs_smallest_val |-> None,
     allow_nan |-> FALSE,
     allow_inf |-> FALSE,
     allow_subnormal |-> FALSE,
     exclude_min |-> TRUE,
     exclude_max |-> TRUE,
     large_abs_safety_factor |-> n.large_abs_safety_factor,
     small_abs_safety_factor |-> n.small_abs_safety_factor,
     safety_factor_scale |-> n.safety_factor_scale]

NoReq == [min_value |-> None, max_value |-> None]

\* lines 238-252: draw(ints(...) | floats(...))
number(n) ==
    /\ pc = "idle"
    /\ pc' = "choose"
    /\ outer' = "number"
    /\ nreq' = n
    /\ gen' = "none"
    /\ req' = NoReq
    /\ dtype' = "none"
    /\ scaled' = NotScaled
    /\ strategy' = << >>
    /\ pick' = 0
    /\ draws' = 0
    /\ ret' = {}
    /\ err' = "none"
    /\ UNCHANGED <<floats_info, prev>>

\* the draw chose the ints alternative
NumberInts ==
    /\ pc = "choose"
    /\ IntsBody(NumberIntsArgs(nreq), draws + 1)
    /\ UNCHANGED <<outer, nreq, prev>>

\* the draw chose the floats alternative
NumberFloats ==
    /\ pc = "choose"
    /\ FloatsBody(NumberFloatsArgs(nreq), draws + 1)
    /\ UNCHANGED <<outer, nreq, prev>>

-----------------------------------------------------------------------------
(* the end of an invocation: nothing of it is kept *)

Finish ==
    /\ pc = "done"
    /\ pc' = "idle"
    /\ outer' = "none"
    /\ nreq' = NoReq
    /\ gen' = "none"
    /\ req' = NoReq
    /\ dtype' = "none"
    /\ scaled' = NotScaled
    /\ strategy' = << >>
    /\ pick' = 0
    /\ draws' = 0
    /\ ret' = {}
    /\ err' = "none"
    /\ UNCHANGED floats_info

Return == Finish /\ UNCHANGED prev

\* the same, with the invocation that ends remembered for comparison
ReturnLogged ==
    /\ Finish
    /\ prev' = [outer |-> outer, nreq |-> nreq, gen |-> gen, req |-> req,
                dtype |-> dtype, scaled |-> scaled, strategy |-> strategy,
                pick |-> pick, ret |-> ret, err |-> err]

-----------------------------------------------------------------------------
(* The requests *)

Factors == 1..MaxFactor

ReqVals == {-20, -5, 3, 10, 40}

OptVals == {None} \cup {Some(v) : v \in ReqVals}

AbsVals == {None, Some(0), Some(5)}

FloatRequests ==
    [min_value : OptVals,
     max_value : OptVals,
     abs_smallest_val : AbsVals,
     allow_nan : BOOLEAN,
     allow_inf : BOOLEAN,
     allow_subnormal : BOOLEAN,
     exclude_min : BOOLEAN,
     exclude_max : BOOLEAN,
     large_abs_safety_factor : Factors,
     small_abs_safety_factor : Factors,
     safety_factor_scale : {"linear", "log"}]

IntRequests ==
    [min_value : OptVals,
     max_value : OptVals,
     safety_factor : Factors,
     safety_factor_scale : {"None", "linear", "log"}]

NumberRequests ==
    [min_value : OptVals,
     max_value : OptVals,
     large_abs_safety_factor : Factors,
     small_abs_safety_factor : Factors,
     safety_factor_scale : {"linear", "log"}]

NoPrev == [outer |-> "none"]

Init ==
    /\ pc = "idle"
    /\ outer = "none"
    /\ nreq = NoReq
    /\ gen = "none"
    /\ req = NoReq
    /\ dtype = "none"
    /\ scaled = NotScaled
    /\ strategy = << >>
    /\ pick = 0
    /\ draws = 0
    /\ ret = {}
    /\ err = "none"
    /\ floats_info = FloatsInfoTable
    /\ prev = NoPrev

Next ==
    \/ pc = "idle" /\ \E r \in FloatRequests : floats(r)
    \/ pc = "idle" /\ \E r \in IntRequests : ints(r)
    \/ pc = "idle" /\ \E n \in NumberRequests : number(n)
    \/ NumberInts
    \/ NumberFloats
    \/ FloatsDraw
    \/ IntsDraw
    \/ Return

Spec == Init /\ [][Next]_vars

-----------------------------------------------------------------------------
(* Repeated invocations, each compared with the one before it *)

ReplayFloatRequests ==
    [min_value : {None, Some(-5)},
     max_value : {Some(10)},
     abs_smallest_val : {None},
     allow_nan : {FALSE},
     allow_inf : {FALSE},
     allow_subnormal : {FALSE},
     exclude_min : BOOLEAN,
     exclude_max : {TRUE},
     large_abs_safety_factor : Factors,
     small_abs_safety_factor : {1},
     safety_factor_scale : {"linear"}]

ReplayIntRequests ==
    [min_value : {None, Some(-5)},
     max_value : {Some(3)},
     safety_factor : Factors,
     safety_factor_scale : {"linear"}]
    \cup
    [min_value : {Some(-5)},
     max_value : {Some(3)},
     safety_factor : {1},
     safety_factor_scale : {"None"}]

ReplayNumberRequests ==
    [min_value : {Some(-5)},
     max_value : {Some(10)},
     large_abs_safety_factor : Factors,
     small_abs_safety_factor : {1},
     safety_factor_scale : {"linear"}]

ReplayNext ==
    \/ pc = "idle" /\ \E r \in ReplayFloatRequests : floats(r)
    \/ pc = "idle" /\ \E r \in ReplayIntRequests : ints(r)
    \/ pc = "idle" /\ \E n \in ReplayNumberRequests : number(n)
    \/ NumberInts
    \/ NumberFloats
    \/ FloatsDraw
    \/ IntsDraw
    \/ ReturnLogged

SpecReplay == Init /\ [][ReplayNext]_vars

-----------------------------------------------------------------------------
(* What the claims speak of *)

\* a value was returned
Returned == pc = "done" /\ ret # {}

\* the caller stated both bounds and min_value > max_value
InvertedRequest ==
    /\ req.min_value # None
    /\ req.max_value # None
    /\ Val(req.min_value) > Val(req.max_value)

\* the scaled window straddles the excluded band (line 96 is false)
Straddles == scaled.min <= -scaled.abs /\ scaled.max >= scaled.abs

\* the draw width of the resolved dtype
DrawWidth == FloatsInfoTable[dtype].width

-----------------------------------------------------------------------------
(* C1 *)

\* C1 (as stated): every value the float generator returns lies within the
\* scaled window [min', max'] that gh.apply_safety_factor returned, and differs
\* from min' when exclude_min is true and from max' when exclude_max is true.
\* The code rounds the bounds to the draw width with float_of (lines 98-99), to
\* the nearest float and so possibly outward, and with exclude_min false the
\* rounded bound itself can be returned.
C1_WithinScaledWindow ==
    (gen = "floats" /\ Returned) =>
        /\ scaled.min <= Val(ret)
        /\ Val(ret) <= scaled.max
        /\ req.exclude_min => Val(ret) # scaled.min
        /\ req.exclude_max => Val(ret) # scaled.max

-----------------------------------------------------------------------------
(* C2 *)

-----------------------------------------------------------------------------
(* C3 *)

\* C3 (as stated): when the scaled window straddles the excluded band and abs'
\* is nonzero, the value is drawn from one of the two sub-windows
\* [min', -abs'] and [abs', max'], so it is never strictly inside
\* (-abs', abs').
C3_DrawnFromSubWindow ==
    (gen = "floats" /\ Returned /\ Straddles /\ scaled.abs # 0) =>
        /\ pick \in {1, 2}
        /\ pick = 1 => scaled.min <= Val(ret) /\ Val(ret) <= -scaled.abs
        /\ pick = 2 => scaled.abs <= Val(ret) /\ Val(ret) <= scaled.max

-----------------------------------------------------------------------------
(* C4 *)

\* C4 (as stated): every value returned by ints, floats or number lies within
\* the caller-stated bounds intersected with the representable range of the
\* dtype resolved for the call.
C4_WithinStatedAndRepresentable ==
    Returned =>
        /\ DomainInfo[dtype].min <= Val(ret)
        /\ Val(ret) <= DomainInfo[dtype].max
        /\ req.min_value # None => Val(req.min_value) <= Val(ret)
        /\ req.max_value # None => Val(ret) <= Val(req.max_value)

-----------------------------------------------------------------------------
(* C5 *)

-----------------------------------------------------------------------------
(* C6 *)

\* C6: an int request with both bounds unstated is scaled linearly by the
\* safety factor against the limits of the resolved dtype, whatever
\* scale_mode was passed, and the returned integer is within those limits.
C6_UnboundedIntsScaledLinearly ==
    (gen = "ints" /\ req.min_value = None /\ req.max_value = None
        /\ pc \in {"draw", "done"}) =>
        LET d == DomainInfo[dtype]
        IN  /\ scaled.applied
            /\ scaled.min = TruncDiv(d.min, req.safety_factor)
            /\ scaled.max = TruncDiv(d.max, req.safety_factor)
            /\ strategy[1].min = Some(scaled.min)
            /\ strategy[1].max = Some(scaled.max)
            /\ ret # {} => d.min <= Val(ret) /\ Val(ret) <= d.max

\* an unbounded request that asked for log scaling with factor 2 returned
C6_Witness ==
    /\ outer = "ints"
    /\ req.min_value = None
    /\ req.max_value = None
    /\ req.safety_factor_scale = "log"
    /\ req.safety_factor = 2
    /\ Returned

-----------------------------------------------------------------------------
(* C7 *)

\* C7: number runs ints or floats on its own request: min_value, max_value
\* and scale_mode reach both unchanged, large_factor is the safety factor of
\* ints and the large factor of floats, small_factor reaches floats only,
\* whose other arguments keep their defaults, and both alternatives can be
\* drawn on every call.
C7_NumberDelegates ==
    outer = "number" =>
        /\ pc = "choose" => (ENABLED NumberInts) /\ (ENABLED NumberFloats)
        /\ gen # "none" =>
              /\ req.min_value = nreq.min_value
              /\ req.max_value = nreq.max_value
              /\ req.safety_factor_scale = nreq.safety_factor_scale
        /\ gen = "ints" =>
              /\ DOMAIN req = {"min_value", "max_value", "safety_factor",
                               "safety_factor_scale"}
              /\ req.safety_factor = nreq.large_abs_safety_factor
        /\ gen = "floats" =>
              /\ req.large_abs_safety_factor = nreq.large_abs_safety_factor
              /\ req.small_abs_safety_factor = nreq.small_abs_safety_factor
              /\ req.abs_smallest_val = None
              /\ ~req.allow_nan /\ ~req.allow_inf /\ ~req.allow_subnormal
              /\ req.exclude_min /\ req.exclude_max

\* number returned an integer for a request whose two factors differ
C7_Witness ==
    /\ outer = "number"
    /\ gen = "ints"
    /\ Returned
    /\ nreq.large_abs_safety_factor = 2
    /\ nreq.small_abs_safety_factor = 1

-----------------------------------------------------------------------------
(* C9 *)

\* C9: every st.floats call of the float generator, the single window and
\* both halves of the split one, gets the caller's allow_nan, allow_inf,
\* allow_subnormal, exclude_min and exclude_max and the width of the resolved
\* dtype; with the three allow_* flags false the returned value is a finite
\* number that is zero or normal at that width.
C9_FlagsVerbatim ==
    (gen = "floats" /\ pc \in {"draw", "done"} /\ strategy # << >>) =>
        /\ \A i \in 1..Len(strategy) :
              /\ strategy[i].allow_nan = req.allow_nan
              /\ strategy[i].allow_infinity = req.allow_inf
              /\ strategy[i].allow_subnormal = req.allow_subnormal
              /\ strategy[i].exclude_min = req.exclude_min
              /\ strategy[i].exclude_max = req.exclude_max
              /\ strategy[i].width = DrawWidth
        /\ (ret # {} /\ ~req.allow_nan /\ ~req.allow_inf /\ ~req.allow_subnormal) =>
              /\ Val(ret) \in Int
              /\ \/ Val(ret) = 0
                 \/ AbsVal(Val(ret)) >= WidthInfo[DrawWidth].smallest_normal

\* a split window drawn with the default flags
C9_Witness ==
    /\ outer = "floats"
    /\ Returned
    /\ Len(strategy) = 2
    /\ pick = 2
    /\ ~req.allow_nan /\ ~req.allow_inf /\ ~req.allow_subnormal
    /\ req.exclude_min /\ req.exclude_max

-----------------------------------------------------------------------------
(* C10 *)

\* the scale mode of an int request after the rule for unbounded requests
C10_Mode ==
    IF req.min_value = None /\ req.max_value = None THEN "linear"
    ELSE req.safety_factor_scale

\* C10: ints scales exactly when the scale mode is non-null after the rule for
\* unbounded requests.  With a null mode the caller's bounds reach the integer
\* draw unchanged, an unstated one staying unstated; otherwise only the large
\* factor is applied (no excluded band, no split); the draw is over
\* [min_value, max_value] inclusive.
C10_IntsScaleIffMode ==
    (gen = "ints" /\ pc \in {"draw", "done"} /\ err # "RangeError") =>
        LET d  == DomainInfo[dtype]
            mn == IF req.min_value = None THEN d.min ELSE Val(req.min_value)
            mx == IF req.max_value = None THEN d.max ELSE Val(req.max_value)
            s  == strategy[1]
        IN  /\ Len(strategy) = 1
            /\ pick = 0
            /\ scaled.applied <=> C10_Mode # "None"
            /\ ~scaled.applied => s.min = req.min_value /\ s.max = req.max_value
            /\ scaled.applied =>
                  /\ s.min = Some(Clamp(ScaleLarge(mn, req.safety_factor, C10_Mode),
                                        d.min, d.max))
                  /\ s.max = Some(Clamp(ScaleLarge(mx, req.safety_factor, C10_Mode),
                                        d.min, d.max))
                  /\ scaled.abs = 0
            /\ ret # {} =>
                  /\ s.min # None => Val(s.min) <= Val(ret)
                  /\ s.max # None => Val(ret) <= Val(s.max)

\* a null scale mode with only max_value stated: a value below every dtype
C10_Witness ==
    /\ outer = "ints"
    /\ req.safety_factor_scale = "None"
    /\ req.min_value = None
    /\ req.max_value = Some(3)
    /\ Returned
    /\ Val(ret) = -HostIntMax

-----------------------------------------------------------------------------
(* C8 *)

\* the invocation that just ended had the same arguments as the one before it
\* and got the same alternative and dtype from the drawing context
C8_SameAsPrev ==
    /\ pc = "done"
    /\ prev.outer = outer
    /\ prev.nreq = nreq
    /\ prev.gen = gen
    /\ prev.req = req
    /\ prev.dtype = dtype

\* the values the strategy s offers
C8_Offered(s) ==
    IF s.kind = "floats" THEN FloatsValues(s) ELSE IntegersValues(s)

\* C8: no invocation changes what a later one reads (floats_info is the table
\* of lines 8-13 after every call), and an invocation with the same arguments
\* that gets the same alternative and dtype from the drawing context as the
\* one before it scales to the same window, hands the same strategy to the
\* draw and fails alike, so the same drawn value is returned.
C8_StatelessReplay ==
    /\ floats_info = FloatsInfoTable
    /\ C8_SameAsPrev =>
          /\ prev.scaled = scaled
          /\ prev.strategy = strategy
          /\ (prev.err = "none") <=> (err = "none")
          /\ (ret # {} /\ prev.pick = pick) =>
                Val(ret) \in C8_Offered(prev.strategy[IF pick = 0 THEN 1 ELSE pick])

\* a float request repeated on bfloat16, whose width differs from its name's
C8_Witness ==
    /\ C8_SameAsPrev
    /\ outer = "floats"
    /\ dtype = "bfloat16"
    /\ Returned
    /\ prev.ret # {}
    /\ prev.ret # ret

====
